---- MODULE Spec2Model ----
(***************************************************************************)
(* Model of trading_app: the account store (User), the ledger              *)
(* (Transaction), the holdings store (Holding) and the portfolio reports   *)
(* behind the REST viewsets of views.py and the serializers of             *)
(* serializers.py.                                                         *)
(*                                                                         *)
(* Money is counted in hundredths of the currency unit (the DecimalFields  *)
(* have decimal_places=2), so 10000 is 100.00 and a price of 1 is 0.01.    *)
(* Every database statement runs in autocommit mode: the source opens no   *)
(* transaction.atomic block and takes no row lock.                         *)
(***************************************************************************)
EXTENDS Integers, Sequences, FiniteSets, TLC

\* ------------------------------------------------------------------ bounds
\* accounts ever created (primary keys are never reused)
MaxUsers == 2
\* recordTransaction requests ever accepted
MaxTx == 3
\* recordTransaction requests accepted among the other requests of Spec
MaxApiTx == 2
\* holding rows ever created
MaxHoldings == 2
\* requests that may be in flight at once
MaxReq == 2
\* recordTransaction requests accepted among the requests of SpecOwners
MaxOwnedTx == 1

UserIds == 1..MaxUsers
Requests == 1..MaxReq

\* ------------------------------------------------------------ input domains
\* an optional request field: <<>> when the payload omits it, <<v>> otherwise
Option(S) == {<<>>} \cup {<<v>> : v \in S}
Given(o) == Len(o) = 1
Val(o) == o[1]

TRANSACTION_TYPES == {"deposit", "withdrawal", "buy", "sell", "dividend", "fee"}
\* one valid kind and one invalid one: after validation the code never reads
\* transaction_type again
TypeInputs == {"deposit", "bogus"}
AmountInputs == {-10000, 0, 10000}
DescriptionInputs == {"", "ATM"}
PasswordInputs == {"absent", "match", "mismatch"}
StockInputs == {"", "AAPL", "GOOGL"}
QuantityInputs == {-1, 0, 10}
BuyingPriceInputs == {0, 2000}
CurrentPriceInputs == {0, 2500}

VARIABLES
    accounts,       \* rows of trading_user: the ids of the existing accounts
    is_staff,       \* User.is_staff, by account id
    balance,        \* User.balance, by account id
    nextUserId,     \* the next primary key of trading_user
    ledger,         \* rows of trading_transaction, in creation order
    nextTxId,       \* the next primary key of trading_transaction
    served,         \* the recordTransaction requests accepted so far
    holdings,       \* rows of trading_holding
    nextHoldingId,  \* the next primary key of trading_holding
    req,            \* the recordTransaction requests in flight
    status,         \* the HTTP status of the response sent last (0: none yet)
    response        \* the bodies of the last portfolio summary and performance

vars == <<accounts, is_staff, balance, nextUserId, ledger, nextTxId, served,
          holdings, nextHoldingId, req, status, response>>

userVars == <<accounts, is_staff, balance, nextUserId>>
ledgerVars == <<ledger, nextTxId>>
holdingVars == <<holdings, nextHoldingId>>

\* ---------------------------------------------------- binary floating point
\* float(): Python's float is an IEEE 754 binary64 number. A natural number
\* is kept as its bits, least significant first and the last bit 1 (<<>> is
\* zero); a float is [sign, mant, exp] of value (-1)^sign * mant * 2^exp with
\* mant odd and of at most Precision bits, so equal values are equal records
Precision == 53
\* the bits of the fraction kept when a decimal is converted
FractionBits == 64

RECURSIVE BitsOf(_)
BitsOf(n) == IF n = 0 THEN <<>> ELSE <<n % 2>> \o BitsOf(n \div 2)

Bit(b, i) == IF i <= Len(b) THEN b[i] ELSE 0

\* the bits i..i+7 of b as a number, and back: the operators below walk the
\* bits eight at a time
Octet(b, i) ==
    Bit(b, i) + 2 * Bit(b, i + 1) + 4 * Bit(b, i + 2) + 8 * Bit(b, i + 3)
    + 16 * Bit(b, i + 4) + 32 * Bit(b, i + 5) + 64 * Bit(b, i + 6)
    + 128 * Bit(b, i + 7)
OctetBits(v) == [j \in 1..8 |-> (v \div 2^(j - 1)) % 2]

\* the index of the highest 1 among b[1..n], 0 if there is none
RECURSIVE HighestOne(_, _)
HighestOne(b, n) ==
    IF n = 0 THEN 0
    ELSE IF b[n] = 1 THEN n
    ELSE IF n >= 8 /\ Octet(b, n - 7) = 0 THEN HighestOne(b, n - 8)
    ELSE HighestOne(b, n - 1)

Trim(b) == SubSeq(b, 1, HighestOne(b, Len(b)))

\* the number of 0 bits of b from index i up to its lowest 1
RECURSIVE LowZerosFrom(_, _)
LowZerosFrom(b, i) ==
    IF i > Len(b) \/ b[i] = 1 THEN 0
    ELSE IF Octet(b, i) = 0 /\ i + 7 <= Len(b) THEN 8 + LowZerosFrom(b, i + 8)
    ELSE 1 + LowZerosFrom(b, i + 1)

LowZeros(b) == LowZerosFrom(b, 1)

LongerLen(a, b) == IF Len(a) < Len(b) THEN Len(b) ELSE Len(a)

RECURSIVE AddFrom(_, _, _, _)
AddFrom(a, b, i, carry) ==
    IF i > LongerLen(a, b)
    THEN IF carry = 1 THEN <<1>> ELSE <<>>
    ELSE LET s == Octet(a, i) + Octet(b, i) + carry
         IN OctetBits(s % 256) \o AddFrom(a, b, i + 8, s \div 256)

AddBits(a, b) == Trim(AddFrom(a, b, 1, 0))

\* a - b for a >= b
RECURSIVE SubFrom(_, _, _, _)
SubFrom(a, b, i, borrow) ==
    IF i > Len(a) THEN <<>>
    ELSE LET d == Octet(a, i) - Octet(b, i) - borrow
         IN OctetBits(d % 256) \o SubFrom(a, b, i + 8, IF d < 0 THEN 1 ELSE 0)

SubBits(a, b) == Trim(SubFrom(a, b, 1, 0))

\* a < b among the bits 1..i+7, for i the lowest bit of an octet
RECURSIVE LessFrom(_, _, _)
LessFrom(a, b, i) ==
    IF i < 1 THEN FALSE
    ELSE IF Octet(a, i) # Octet(b, i) THEN Octet(a, i) < Octet(b, i)
    ELSE LessFrom(a, b, i - 8)

LessBits(a, b) ==
    IF Len(a) # Len(b) THEN Len(a) < Len(b)
    ELSE LessFrom(a, b, 8 * ((Len(a) + 7) \div 8) - 7)

ShiftLeft(b, k) == IF b = <<>> THEN <<>> ELSE [i \in 1..k |-> 0] \o b

Zero == [sign |-> 0, mant |-> <<>>, exp |-> 0]

Canonical(sign, m, exp) ==
    IF m = <<>> THEN Zero
    ELSE LET z == LowZeros(m)
         IN [sign |-> sign, mant |-> SubSeq(m, z + 1, Len(m)), exp |-> exp + z]

\* round-to-nearest, ties-to-even, of n * 2^exp (and a little more if sticky)
RoundNearestEven(sign, n, exp, sticky) ==
    IF Len(n) <= Precision THEN Canonical(sign, n, exp)
    ELSE LET d == Len(n) - Precision
             kept == SubSeq(n, d + 1, Len(n))
             more == sticky \/ LowZeros(n) < d - 1
             up == n[d] = 1 /\ (more \/ kept[1] = 1)
         IN Canonical(sign, IF up THEN AddBits(kept, <<1>>) ELSE kept, exp + d)

\* 2^i modulo 200
RECURSIVE PowerOfTwoMod200(_)
PowerOfTwoMod200(i) ==
    IF i = 0 THEN 1
    ELSE LET h == PowerOfTwoMod200(i \div 2)
         IN (h * h * (IF i % 2 = 1 THEN 2 ELSE 1)) % 200

\* the first k bits of r/100 after the binary point (the i-th of them is the
\* parity of floor(r * 2^i / 100)), and what is left of r after them
FracBits(r, k) ==
    [j \in 1..k |->
        IF (r * PowerOfTwoMod200(k - j + 1)) % 200 >= 100 THEN 1 ELSE 0]
FracRem(r, k) == (r * PowerOfTwoMod200(k)) % 100

\* float(d) of a Decimal d given in hundredths: the nearest binary64 number
FloatOfDecimal(c) ==
    LET a == IF c < 0 THEN -c ELSE c
        n == Trim(FracBits(a % 100, FractionBits) \o BitsOf(a \div 100))
    IN RoundNearestEven(IF c < 0 THEN 1 ELSE 0, n, -FractionBits,
                        FracRem(a % 100, FractionBits) # 0)

Negated(x) == IF x = Zero THEN Zero ELSE [x EXCEPT !.sign = 1 - x.sign]

\* |x| < |y|
LessMagnitude(x, y) ==
    LET e == IF x.exp < y.exp THEN x.exp ELSE y.exp
    IN LessBits(ShiftLeft(x.mant, x.exp - e), ShiftLeft(y.mant, y.exp - e))

\* x + y of two floats: the exact sum, rounded once
FloatAdd(x, y) ==
    IF x = Zero THEN y
    ELSE IF y = Zero THEN x
    ELSE LET e == IF x.exp < y.exp THEN x.exp ELSE y.exp
             a == ShiftLeft(x.mant, x.exp - e)
             b == ShiftLeft(y.mant, y.exp - e)
         IN IF x.sign = y.sign
            THEN RoundNearestEven(x.sign, AddBits(a, b), e, FALSE)
            ELSE IF a = b THEN Zero
            ELSE IF LessBits(a, b)
            THEN RoundNearestEven(y.sign, SubBits(b, a), e, FALSE)
            ELSE RoundNearestEven(x.sign, SubBits(a, b), e, FALSE)

FloatSub(x, y) == FloatAdd(x, Negated(y))

\* no portfolio request answered yet
NoResponse ==
    [summary |-> [status |-> 0, user |-> 0, total_invested |-> 0,
                  total_current_value |-> 0, total_profit_loss |-> 0,
                  total_profit_loss_percentage |-> 0],
     performance |-> [status |-> 0, user |-> 0, total_return |-> Zero]]

Idle == [pc |-> "idle", user |-> 0, balance |-> 0, transaction_type |-> "",
         debit |-> 0, credit |-> 0, description |-> ""]

\* no recordTransaction request is between its steps
Quiescent == \A r \in Requests : req[r].pc = "idle"

Init ==
    /\ accounts = {}
    /\ is_staff = [u \in UserIds |-> FALSE]
    /\ balance = [u \in UserIds |-> 0]
    /\ nextUserId = 1
    /\ ledger = <<>>
    /\ nextTxId = 1
    /\ served = 0
    /\ holdings = {}
    /\ nextHoldingId = 1
    /\ req = [r \in Requests |-> Idle]
    /\ status = 0
    /\ response = NoResponse

\* ------------------------------------------------------------------ helpers
RECURSIVE SumSeq(_)
SumSeq(s) == IF s = <<>> THEN 0 ELSE Head(s) + SumSeq(Tail(s))

\* the ledger rows of account u, oldest first
EntriesOf(u) == LET mine(e) == e.user = u IN SelectSeq(ledger, mine)

\* on_delete=CASCADE of Transaction.user and Holding.user
CascadeLedger(u) == LET kept(e) == e.user # u IN SelectSeq(ledger, kept)
CascadeHoldings(u) == {h \in holdings : h.user # u}

\* ------------------------------------------------------------ account store
\* User.balance: MinValueValidator(0), run by the serializer field only
ValidBalance(b) == ~Given(b) \/ Val(b) >= 0

\* UserViewSet.get_queryset: the accounts the actor may address
VisibleUsers(actor) == IF is_staff[actor] THEN accounts ELSE accounts \cap {actor}

\* UserRegistrationSerializer.create through UserViewSet.register (AllowAny):
\* the serializer has no balance field, so the column default 0 is stored
register(pw, unique) ==
    /\ nextUserId <= MaxUsers
    /\ unique \/ accounts # {}
    /\ IF pw = "match" /\ unique
       THEN /\ accounts' = accounts \cup {nextUserId}
            /\ balance' = [balance EXCEPT ![nextUserId] = 0]
            /\ nextUserId' = nextUserId + 1
            /\ status' = 201
       ELSE /\ UNCHANGED <<accounts, balance, nextUserId>>
            /\ status' = 400
    /\ UNCHANGED <<is_staff, ledgerVars, served, holdingVars, req, response>>

\* a staff account (AbstractUser.is_staff), made outside the REST interface
\* when the service is set up, before any request; it gets the column default
\* balance 0 as well
createsuperuser ==
    /\ nextUserId = 1
    /\ accounts' = accounts \cup {nextUserId}
    /\ is_staff' = [is_staff EXCEPT ![nextUserId] = TRUE]
    /\ balance' = [balance EXCEPT ![nextUserId] = 0]
    /\ nextUserId' = nextUserId + 1
    /\ UNCHANGED <<ledgerVars, served, holdingVars, req, status, response>>

\* UserSerializer.create through UserViewSet.create (POST /users/): balance is
\* a writable field of the serializer and is handed to create_user
CreateUser(actor, bal, pw, unique) ==
    /\ actor \in accounts
    /\ nextUserId <= MaxUsers
    /\ IF pw = "match" /\ unique /\ ValidBalance(bal)
       THEN /\ accounts' = accounts \cup {nextUserId}
            /\ balance' = [balance EXCEPT
                   ![nextUserId] = IF Given(bal) THEN Val(bal) ELSE 0]
            /\ nextUserId' = nextUserId + 1
            /\ status' = 201
       ELSE /\ UNCHANGED <<accounts, balance, nextUserId>>
            /\ status' = 400
    /\ UNCHANGED <<is_staff, ledgerVars, served, holdingVars, req, response>>

\* UserSerializer.validate and UserSerializer.update on `target`: the field
\* validators run first (400), then validate() reads attrs['password'], which
\* a partial payload without a password does not hold (KeyError, 500)
SaveUserSerializer(target, bal, pw, partial) ==
    IF ~ValidBalance(bal) \/ (pw = "absent" /\ ~partial) \/ pw = "mismatch"
    THEN /\ status' = 400
         /\ UNCHANGED balance
    ELSE IF pw = "absent"
    THEN /\ status' = 500
         /\ UNCHANGED balance
    ELSE /\ status' = 200
         /\ balance' = IF Given(bal) THEN [balance EXCEPT ![target] = Val(bal)]
                       ELSE balance

\* UserViewSet.update_profile: UserSerializer(request.user, partial=True)
update_profile(actor, bal, pw) ==
    /\ actor \in accounts
    /\ SaveUserSerializer(actor, bal, pw, TRUE)
    /\ UNCHANGED <<accounts, is_staff, nextUserId, ledgerVars, served, holdingVars, req, response>>

\* UserViewSet.update / partial_update (PUT, PATCH /users/{id}/)
UpdateUser(actor, target, bal, pw, partial) ==
    /\ actor \in accounts
    /\ IF target \in VisibleUsers(actor)
       THEN SaveUserSerializer(target, bal, pw, partial)
       ELSE status' = 404 /\ UNCHANGED balance
    /\ UNCHANGED <<accounts, is_staff, nextUserId, ledgerVars, served, holdingVars, req, response>>

\* UserViewSet.destroy (DELETE /users/{id}/): the row goes and, by
\* on_delete=CASCADE, so do the account's ledger rows and holdings
DestroyUser(actor, target) ==
    /\ actor \in accounts
    /\ IF target \in VisibleUsers(actor)
       THEN /\ accounts' = accounts \ {target}
            /\ balance' = [balance EXCEPT ![target] = 0]
            /\ ledger' = CascadeLedger(target)
            /\ holdings' = CascadeHoldings(target)
            /\ status' = 204
       ELSE /\ UNCHANGED <<accounts, balance, ledger, holdings>>
            /\ status' = 404
    /\ UNCHANGED <<is_staff, nextUserId, nextTxId, served, nextHoldingId, req, response>>

\* ------------------------------------------------------------------- ledger
\* TransactionViewSet.get_queryset: the ledger rows the actor may address
VisibleTransactions(actor) ==
    LET seen(e) == is_staff[actor] \/ e.user = actor IN SelectSeq(ledger, seen)

TxIds(rows) == {rows[i].id : i \in 1..Len(rows)}

\* the field validation of TransactionCreateSerializer: transaction_type is a
\* choice field, debit and credit carry MinValueValidator(0) and may be left
\* out (they have a column default), description may not be blank
ValidTransaction(type, debit, credit, description) ==
    /\ type \in TRANSACTION_TYPES
    /\ ~Given(debit) \/ Val(debit) >= 0
    /\ ~Given(credit) \/ Val(credit) >= 0
    /\ description # ""

\* a net amount that forgets the debit side
NetAmountCreditOnly(credit, debit) == credit

\* net_amount = validated_data['credit'] - validated_data['debit']
NetAmount(credit, debit) == credit - debit

\* user.balance += net_amount, on the request's own copy of the account row
AddNet(bal, net) == bal + net

\* TransactionViewSet.create up to the first statement that writes: the
\* request is authenticated (which loads request.user, its balance included),
\* the payload is validated (400), and create() reads validated_data['credit']
\* and ['debit'], which are missing if the payload left them out (KeyError)
BeginTransaction(r, u, type, debit, credit, description) ==
    /\ req[r].pc = "idle"
    /\ u \in accounts
    /\ served < MaxTx
    /\ IF ~ValidTransaction(type, debit, credit, description)
       THEN status' = 400 /\ UNCHANGED <<req, served>>
       ELSE IF ~Given(debit) \/ ~Given(credit)
       THEN status' = 500 /\ UNCHANGED <<req, served>>
       ELSE /\ req' = [req EXCEPT ![r] =
                   [pc |-> "save", user |-> u, balance |-> balance[u],
                    transaction_type |-> type, debit |-> Val(debit),
                    credit |-> Val(credit), description |-> description]]
            /\ served' = served + 1
            /\ UNCHANGED status
    /\ UNCHANGED <<userVars, ledgerVars, holdingVars, response>>

\* user.balance += net_amount; user.save(): the whole row is written from the
\* request's copy (an UPDATE by primary key, or an INSERT if the row has gone)
SaveBalance(r) ==
    /\ req[r].pc = "save"
    /\ LET new == AddNet(req[r].balance, NetAmount(req[r].credit, req[r].debit))
       IN /\ balance' = [balance EXCEPT ![req[r].user] = new]
          /\ req' = [req EXCEPT ![r].balance = new, ![r].pc = "insert"]
    /\ accounts' = accounts \cup {req[r].user}
    /\ UNCHANGED <<is_staff, nextUserId, ledgerVars, served, holdingVars, status, response>>

\* whether the ledger already holds a row with the payload of request r
AlreadyRecorded(r) ==
    \E i \in 1..Len(ledger) :
        /\ ledger[i].user = req[r].user
        /\ ledger[i].transaction_type = req[r].transaction_type
        /\ ledger[i].debit = req[r].debit
        /\ ledger[i].credit = req[r].credit
        /\ ledger[i].description = req[r].description

\* validated_data['balance_after'] = user.balance; super().create(...)
NewEntry(r) ==
    [id |-> nextTxId, user |-> req[r].user,
     transaction_type |-> req[r].transaction_type, debit |-> req[r].debit,
     credit |-> req[r].credit, description |-> req[r].description,
     balance_after |-> req[r].balance]

\* an INSERT that takes a replayed payload for a duplicate and drops it
InsertEntryOnce(r) ==
    /\ req[r].pc = "insert"
    /\ IF req[r].user \in accounts /\ ~AlreadyRecorded(r)
       THEN /\ ledger' = Append(ledger, NewEntry(r))
            /\ nextTxId' = nextTxId + 1
            /\ status' = 201
       ELSE /\ UNCHANGED ledgerVars
            /\ status' = IF req[r].user \in accounts THEN 200 ELSE 500
    /\ req' = [req EXCEPT ![r] = Idle]
    /\ UNCHANGED <<userVars, served, holdingVars, response>>

\* the INSERT into trading_transaction; its foreign key needs the account row
InsertEntry(r) ==
    /\ req[r].pc = "insert"
    /\ IF req[r].user \in accounts
       THEN /\ ledger' = Append(ledger, NewEntry(r))
            /\ nextTxId' = nextTxId + 1
            /\ status' = 201
       ELSE /\ UNCHANGED ledgerVars
            /\ status' = 500
    /\ req' = [req EXCEPT ![r] = Idle]
    /\ UNCHANGED <<userVars, served, holdingVars, response>>

\* the INSERT raises (the database is locked or gone): the exception leaves
\* create() and the request ends with a server error. create() has no
\* transaction.atomic and no except clause, so the balance written by
\* user.save() stays
InsertFails(r) ==
    /\ req[r].pc = "insert"
    /\ req' = [req EXCEPT ![r] = Idle]
    /\ status' = 500
    /\ UNCHANGED <<userVars, ledgerVars, served, holdingVars, response>>

\* a single-field PATCH payload for a ledger row: TransactionSerializer leaves
\* user, transaction_type, debit, credit and description writable
TransactionPatches ==
    [field : {"user"}, value : UserIds]
    \cup [field : {"transaction_type"}, value : TypeInputs]
    \cup [field : {"debit", "credit"}, value : AmountInputs]
    \cup [field : {"description"}, value : DescriptionInputs]

ValidTransactionPatch(p) ==
    CASE p.field = "user" -> p.value \in accounts
      [] p.field = "transaction_type" -> p.value \in TRANSACTION_TYPES
      [] p.field \in {"debit", "credit"} -> p.value >= 0
      [] p.field = "description" -> p.value # ""

\* ModelSerializer.update: setattr for each validated field, then save()
PatchedEntry(e, p) ==
    CASE p.field = "user" -> [e EXCEPT !.user = p.value]
      [] p.field = "transaction_type" -> [e EXCEPT !.transaction_type = p.value]
      [] p.field = "debit" -> [e EXCEPT !.debit = p.value]
      [] p.field = "credit" -> [e EXCEPT !.credit = p.value]
      [] p.field = "description" -> [e EXCEPT !.description = p.value]

\* TransactionViewSet.partial_update (PATCH /transactions/{id}/), inherited
\* from ModelViewSet, with TransactionSerializer
UpdateTransaction(actor, id, p) ==
    /\ actor \in accounts
    /\ IF id \notin TxIds(VisibleTransactions(actor))
       THEN status' = 404 /\ UNCHANGED ledger
       ELSE IF ~ValidTransactionPatch(p)
       THEN status' = 400 /\ UNCHANGED ledger
       ELSE /\ ledger' = [i \in 1..Len(ledger) |->
                   IF ledger[i].id = id THEN PatchedEntry(ledger[i], p)
                   ELSE ledger[i]]
            /\ status' = 200
    /\ UNCHANGED <<userVars, nextTxId, served, holdingVars, req, response>>

\* TransactionViewSet.destroy (DELETE /transactions/{id}/), inherited from
\* ModelViewSet
DestroyTransaction(actor, id) ==
    /\ actor \in accounts
    /\ IF id \in TxIds(VisibleTransactions(actor))
       THEN /\ ledger' = LET kept(e) == e.id # id IN SelectSeq(ledger, kept)
            /\ status' = 204
       ELSE status' = 404 /\ UNCHANGED ledger
    /\ UNCHANGED <<userVars, nextTxId, served, holdingVars, req, response>>

\* TransactionViewSet.summary
total_debits(actor) ==
    LET q == VisibleTransactions(actor)
    IN SumSeq([i \in 1..Len(q) |-> q[i].debit])
total_credits(actor) ==
    LET q == VisibleTransactions(actor)
    IN SumSeq([i \in 1..Len(q) |-> q[i].credit])
net_amount(actor) == total_credits(actor) - total_debits(actor)
transaction_count(actor) == Len(VisibleTransactions(actor))
current_balance(actor) == balance[actor]

\* the GET endpoints (profile, list, retrieve, by_type, recent, summary,
\* by_stock, profitable, losing, portfolio) and login/logout: no row of the
\* three tables is written
Query(actor) ==
    /\ actor \in accounts
    /\ status' = 200
    /\ UNCHANGED <<userVars, ledgerVars, served, holdingVars, req, response>>

\* ----------------------------------------------------------- holdings store
\* HoldingViewSet.get_queryset: the holdings the actor may address
VisibleHoldings(actor) == {h \in holdings : is_staff[actor] \/ h.user = actor}

\* the largest value of a PositiveIntegerField
MaxPositiveInteger == 2147483647
\* MinValueValidator(Decimal('0.01')) of buying_price and current_price
MinPrice == 1

\* PositiveIntegerField: the serializer field takes the model field's range
\* validators, so its min_value is 0, not 1
ValidQuantity(q) == q >= 0 /\ q <= MaxPositiveInteger
ValidPrice(p) == p >= MinPrice
ValidStock(s) == s # ""

\* the field validation of HoldingCreateSerializer
ValidHolding(stock, quantity, buying_price, current_price) ==
    /\ ValidStock(stock)
    /\ ValidQuantity(quantity)
    /\ ValidPrice(buying_price)
    /\ ValidPrice(current_price)

\* a table without the unique constraint
PairNeverTaken(user, stock, exceptId) == FALSE

\* unique_together = ['user', 'stock']: another row already holds the pair
PairTaken(user, stock, exceptId) ==
    \E h \in holdings : h.user = user /\ h.stock = stock /\ h.id # exceptId

\* HoldingViewSet.create with HoldingCreateSerializer: the serializer has no
\* user field, so it carries no unique-together validator and a duplicate
\* pair is refused by the table's unique constraint (IntegrityError)
CreateHolding(actor, stock, quantity, buying_price, current_price) ==
    /\ actor \in accounts
    /\ \/ nextHoldingId <= MaxHoldings
       \/ ~ValidHolding(stock, quantity, buying_price, current_price)
       \/ PairTaken(actor, stock, 0)
    /\ IF ~ValidHolding(stock, quantity, buying_price, current_price)
       THEN status' = 400 /\ UNCHANGED holdingVars
       ELSE IF PairTaken(actor, stock, 0)
       THEN status' = 500 /\ UNCHANGED holdingVars
       ELSE /\ holdings' = holdings \cup
                   {[id |-> nextHoldingId, user |-> actor, stock |-> stock,
                     quantity |-> quantity, buying_price |-> buying_price,
                     current_price |-> current_price]}
            /\ nextHoldingId' = nextHoldingId + 1
            /\ status' = 201
    /\ UNCHANGED <<userVars, ledgerVars, served, req, response>>

\* a single-field PATCH payload for a holding: HoldingSerializer leaves user,
\* stock, quantity, buying_price and current_price writable
HoldingPatches ==
    [field : {"user"}, value : UserIds]
    \cup [field : {"stock"}, value : StockInputs]
    \cup [field : {"quantity"}, value : QuantityInputs]
    \cup [field : {"buying_price"}, value : BuyingPriceInputs]
    \cup [field : {"current_price"}, value : CurrentPriceInputs]

ValidHoldingPatch(p) ==
    CASE p.field = "user" -> p.value \in accounts
      [] p.field = "stock" -> ValidStock(p.value)
      [] p.field = "quantity" -> ValidQuantity(p.value)
      [] p.field \in {"buying_price", "current_price"} -> ValidPrice(p.value)

PatchedHolding(h, p) ==
    CASE p.field = "user" -> [h EXCEPT !.user = p.value]
      [] p.field = "stock" -> [h EXCEPT !.stock = p.value]
      [] p.field = "quantity" -> [h EXCEPT !.quantity = p.value]
      [] p.field = "buying_price" -> [h EXCEPT !.buying_price = p.value]
      [] p.field = "current_price" -> [h EXCEPT !.current_price = p.value]

\* HoldingViewSet.partial_update (PATCH /holdings/{id}/) with
\* HoldingSerializer, which holds both user and stock and so gets the
\* unique-together validator; the table's constraint stands behind it
UpdateHolding(actor, id, p) ==
    /\ actor \in accounts
    /\ IF id \notin {h.id : h \in VisibleHoldings(actor)}
       THEN status' = 404 /\ UNCHANGED holdings
       ELSE LET old == CHOOSE h \in holdings : h.id = id
                new == PatchedHolding(old, p)
            IN IF ~ValidHoldingPatch(p) \/ PairTaken(new.user, new.stock, id)
               THEN status' = 400 /\ UNCHANGED holdings
               ELSE /\ holdings' = (holdings \ {old}) \cup {new}
                    /\ status' = 200
    /\ UNCHANGED <<userVars, ledgerVars, served, nextHoldingId, req, response>>

\* HoldingViewSet.destroy (DELETE /holdings/{id}/)
DestroyHolding(actor, id) ==
    /\ actor \in accounts
    /\ IF id \in {h.id : h \in VisibleHoldings(actor)}
       THEN /\ holdings' = {h \in holdings : h.id # id}
            /\ status' = 204
       ELSE status' = 404 /\ UNCHANGED holdings
    /\ UNCHANGED <<userVars, ledgerVars, served, nextHoldingId, req, response>>

\* ---------------------------------------------------------------- portfolio
\* Holding.total_invested, .current_value and .profit_loss, in hundredths
total_invested(h) == h.quantity * h.buying_price
current_value(h) == h.quantity * h.current_price
profit_loss(h) == current_value(h) - total_invested(h)

\* Holding.profit_loss_percentage, as the fraction num/den
profit_loss_percentage(h) ==
    IF total_invested(h) > 0
    THEN [num |-> profit_loss(h) * 100, den |-> total_invested(h)]
    ELSE [num |-> 0, den |-> 1]

\* g sorts before h under key=profit_loss_percentage, reverse=True. The key
\* is the float of a 28-digit Decimal; percentages of amounts this small
\* convert to equal floats only if they are equal fractions
HigherPercentage(g, h) ==
    profit_loss_percentage(g).num * profit_loss_percentage(h).den
        > profit_loss_percentage(h).num * profit_loss_percentage(g).den

\* Holding.objects.filter(user=user) under Meta.ordering = ['-date_purchased']
RECURSIVE NewestFirst(_)
NewestFirst(rows) ==
    IF rows = {} THEN <<>>
    ELSE LET h == CHOOSE h \in rows : \A g \in rows : g.id <= h.id
         IN <<h>> \o NewestFirst(rows \ {h})

HoldingsOf(user) == NewestFirst({h \in holdings : h.user = user})

\* performance_data.sort(key=..., reverse=True): a stable sort, so holdings
\* of equal percentage keep the order of the queryset
RECURSIVE SortedByPercentage(_)
SortedByPercentage(s) ==
    IF s = <<>> THEN <<>>
    ELSE LET i == CHOOSE i \in 1..Len(s) :
                      /\ \A j \in 1..Len(s) : ~HigherPercentage(s[j], s[i])
                      /\ \A j \in 1..(i - 1) : HigherPercentage(s[i], s[j])
         IN <<s[i]>> \o SortedByPercentage(SubSeq(s, 1, i - 1)
                                           \o SubSeq(s, i + 1, Len(s)))

\* n/d to the nearest integer, ties to the even one: round(Decimal, 2) and
\* the quantize of a DecimalField
RoundHalfEven(n, d) ==
    LET q == n \div d
        r == n - q * d
    IN IF 2 * r > d \/ (2 * r = d /\ q % 2 = 1) THEN q + 1 ELSE q

\* total_profit_loss_percentage = DecimalField(max_digits=5, decimal_places=2)
MaxPercentageDigits == 5

\* PortfolioViewSet.summary (GET /portfolio/summary/): the totals are sums of
\* Decimals; the serializer's quantize raises InvalidOperation, a server
\* error, if the rounded percentage has more than max_digits digits
summary(actor) ==
    /\ actor \in accounts
    /\ LET mine == HoldingsOf(actor)
           invested == SumSeq([i \in 1..Len(mine) |-> total_invested(mine[i])])
           value == SumSeq([i \in 1..Len(mine) |-> current_value(mine[i])])
           pl == value - invested
           percentage == IF invested > 0
                         THEN RoundHalfEven(pl * 10000, invested) ELSE 0
       IN IF percentage >= 10^MaxPercentageDigits
             \/ -percentage >= 10^MaxPercentageDigits
          THEN status' = 500 /\ UNCHANGED response
          ELSE /\ status' = 200
               /\ response' = [response EXCEPT !.summary =
                      [status |-> 200, user |-> actor,
                       total_invested |-> invested,
                       total_current_value |-> value,
                       total_profit_loss |-> pl,
                       total_profit_loss_percentage |-> percentage]]
    /\ UNCHANGED <<userVars, ledgerVars, served, holdingVars, req>>

\* sum() of floats as the builtin has always done it: one rounded addition
\* per item
RECURSIVE PlainSum(_, _)
PlainSum(total, s) ==
    IF s = <<>> THEN total ELSE PlainSum(FloatAdd(total, Head(s)), Tail(s))

\* sum() of floats since Python 3.12: the rounding errors are gathered in a
\* second float, which is added at the end
RECURSIVE CompensatedSum(_, _, _)
CompensatedSum(hi, lo, s) ==
    IF s = <<>> THEN IF lo # Zero THEN FloatAdd(hi, lo) ELSE hi
    ELSE LET x == Head(s)
             t == FloatAdd(hi, x)
             c == IF ~LessMagnitude(hi, x)
                  THEN FloatAdd(FloatSub(hi, t), x)
                  ELSE FloatAdd(FloatSub(x, t), hi)
         IN CompensatedSum(t, FloatAdd(lo, c), Tail(s))

\* PortfolioViewSet.performance (GET /portfolio/performance/): each
\* profit_loss goes through float() and total_return is their sum in the
\* sorted order; which sum() runs depends on the interpreter
performance(actor, compensated) ==
    /\ actor \in accounts
    /\ LET performance_data == SortedByPercentage(HoldingsOf(actor))
           items == [i \in 1..Len(performance_data) |->
                        FloatOfDecimal(profit_loss(performance_data[i]))]
           total_return == IF performance_data = <<>> THEN Zero
                           ELSE IF compensated
                           THEN CompensatedSum(Zero, Zero, items)
                           ELSE PlainSum(Zero, items)
       IN response' = [response EXCEPT !.performance =
              [status |-> 200, user |-> actor, total_return |-> total_return]]
    /\ status' = 200
    /\ UNCHANGED <<userVars, ledgerVars, served, holdingVars, req>>

\* ----------------------------------------------------------- specifications
\* one recordTransaction request (POST /transactions/), step by step; at most
\* `cap` such requests are accepted in all
recordTransaction(r, cap) ==
    \/ \E u \in UserIds, type \in TypeInputs, debit \in Option(AmountInputs),
          credit \in Option(AmountInputs), d \in DescriptionInputs :
          served < cap /\ BeginTransaction(r, u, type, debit, credit, d)
    \/ SaveBalance(r)
    \/ InsertEntry(r)

\* the account and ledger side of the REST interface: any sequence of
\* requests, each answered before the next one arrives
Next ==
    \/ Quiescent /\ \E pw \in PasswordInputs, unique \in BOOLEAN :
          register(pw, unique)
    \/ Quiescent /\ createsuperuser
    \/ Quiescent /\ \E a \in UserIds, bal \in Option(AmountInputs),
          pw \in PasswordInputs, unique \in BOOLEAN : CreateUser(a, bal, pw, unique)
    \/ Quiescent /\ \E a \in UserIds, bal \in Option(AmountInputs),
          pw \in PasswordInputs : update_profile(a, bal, pw)
    \/ Quiescent /\ \E a \in UserIds, t \in UserIds, bal \in Option(AmountInputs),
          pw \in PasswordInputs, partial \in BOOLEAN :
          UpdateUser(a, t, bal, pw, partial)
    \/ Quiescent /\ \E a \in UserIds, t \in UserIds : DestroyUser(a, t)
    \/ Quiescent /\ \E a \in UserIds : Query(a)
    \/ recordTransaction(1, MaxApiTx)
    \/ Quiescent /\ \E a \in UserIds, id \in 1..MaxTx, p \in TransactionPatches :
          UpdateTransaction(a, id, p)
    \/ Quiescent /\ \E a \in UserIds, id \in 1..MaxTx : DestroyTransaction(a, id)

Spec == Init /\ [][Next]_vars

\* recordTransaction requests alone, one after the other, on accounts made by
\* registration
NextSeq ==
    \/ \E pw \in PasswordInputs, unique \in BOOLEAN : register(pw, unique)
    \/ recordTransaction(1, MaxTx)

SpecSeq == Init /\ [][NextSeq]_vars

\* the same, with an INSERT that may fail
NextFail ==
    \/ \E pw \in PasswordInputs, unique \in BOOLEAN : register(pw, unique)
    \/ recordTransaction(1, MaxTx)
    \/ InsertFails(1)

SpecFail == Init /\ [][NextFail]_vars

\* recordTransaction requests running concurrently, one per request slot,
\* while accounts are registered and deleted
NextConc ==
    \/ \E pw \in PasswordInputs, unique \in BOOLEAN : register(pw, unique)
    \/ \E r \in Requests : recordTransaction(r, MaxReq)
    \/ \E a \in UserIds, t \in UserIds : DestroyUser(a, t)

SpecConc == Init /\ [][NextConc]_vars

\* the holdings side of the REST interface
NextHoldings ==
    \/ \E pw \in PasswordInputs, unique \in BOOLEAN : register(pw, unique)
    \/ createsuperuser
    \/ \E a \in UserIds, t \in UserIds : DestroyUser(a, t)
    \/ \E a \in UserIds, s \in StockInputs, q \in QuantityInputs,
          bp \in BuyingPriceInputs, cp \in CurrentPriceInputs : CreateHolding(a, s, q, bp, cp)
    \/ \E a \in UserIds, id \in 1..MaxHoldings, p \in HoldingPatches :
          UpdateHolding(a, id, p)
    \/ \E a \in UserIds, id \in 1..MaxHoldings : DestroyHolding(a, id)

SpecHoldings == Init /\ [][NextHoldings]_vars

\* the portfolio reports over any table of holdings the service can hold:
\* one row per stock symbol at most for an account, quantities from 0 and
\* prices from 0.01 up
Symbols == <<"AAPL", "GOOGL", "MSFT">>
PortfolioQuantities == {0, 1, 3}
PortfolioBuyingPrices == {10, 100}
PortfolioCurrentPrices == {90, 110, 120}
PortfolioRows ==
    [user : UserIds, quantity : PortfolioQuantities,
     buying_price : PortfolioBuyingPrices, current_price : PortfolioCurrentPrices]

TableOf(f) ==
    {[id |-> i, user |-> Val(f[i]).user, stock |-> Symbols[i],
      quantity |-> Val(f[i]).quantity, buying_price |-> Val(f[i]).buying_price,
      current_price |-> Val(f[i]).current_price] : i \in {j \in DOMAIN f : Given(f[j])}}

InitPortfolio ==
    /\ accounts = UserIds
    /\ is_staff = [u \in UserIds |-> FALSE]
    /\ balance = [u \in UserIds |-> 0]
    /\ nextUserId = MaxUsers + 1
    /\ ledger = <<>>
    /\ nextTxId = 1
    /\ served = 0
    /\ \E f \in [1..MaxHoldings -> Option(PortfolioRows)] : holdings = TableOf(f)
    /\ nextHoldingId = MaxHoldings + 1
    /\ req = [r \in Requests |-> Idle]
    /\ status = 0
    /\ response = NoResponse

NextPortfolio ==
    \/ \E a \in UserIds : summary(a)
    \/ \E a \in UserIds, compensated \in BOOLEAN : performance(a, compensated)

SpecPortfolio == InitPortfolio /\ [][NextPortfolio]_vars

\* the ledger and the holdings under requests of non-staff accounts only,
\* each answered before the next one arrives
NextOwners ==
    \/ Quiescent /\ \E pw \in PasswordInputs, unique \in BOOLEAN :
          register(pw, unique)
    \/ recordTransaction(1, MaxOwnedTx)
    \/ Quiescent /\ \E a \in UserIds, id \in 1..MaxOwnedTx, p \in TransactionPatches :
          UpdateTransaction(a, id, p)
    \/ Quiescent /\ \E a \in UserIds, id \in 1..MaxOwnedTx : DestroyTransaction(a, id)
    \/ Quiescent /\ \E a \in UserIds, s \in StockInputs, q \in QuantityInputs,
          bp \in BuyingPriceInputs, cp \in CurrentPriceInputs :
          CreateHolding(a, s, q, bp, cp)
    \/ Quiescent /\ \E a \in UserIds, id \in 1..MaxHoldings, p \in HoldingPatches :
          UpdateHolding(a, id, p)
    \/ Quiescent /\ \E a \in UserIds, id \in 1..MaxHoldings : DestroyHolding(a, id)

SpecOwners == Init /\ [][NextOwners]_vars

\* --------------------------------------------------------------- properties
\* the balance_after of the account's most recent ledger row, 0 without rows
LatestBalanceAfter(u) ==
    LET es == EntriesOf(u)
    IN IF es = <<>> THEN 0 ELSE es[Len(es)].balance_after

\* the sum of credit - debit over the account's ledger rows
SumOfNets(u) ==
    LET es == EntriesOf(u)
    IN SumSeq([i \in 1..Len(es) |-> es[i].credit - es[i].debit])

\* C1: once every request has been answered, each account's balance equals
\* the balance_after of its most recent ledger row, or 0 if it has none.
C1_BalanceIsLatestBalanceAfter ==
    Quiescent => \A u \in accounts : balance[u] = LatestBalanceAfter(u)

\* C2: when two concurrent recordTransaction requests, both deposits of the
\* same credit c on an account that started at 0, have both been answered and
\* both their rows are in the ledger, the balance is 2c: no update is lost.
C2_NoLostUpdate ==
    \A u \in accounts :
        LET es == EntriesOf(u)
        IN (/\ Quiescent
            /\ Len(es) = 2
            /\ es[1].debit = 0 /\ es[2].debit = 0
            /\ es[1].credit > 0 /\ es[2].credit = es[1].credit)
           => balance[u] = 2 * es[1].credit

\* C3: after a sequence of recordTransaction calls on accounts that started at
\* 0, each balance is the sum of credit - debit over the account's calls, is
\* the balance_after of the account's last ledger row, and is the net_amount
\* of the account's ledger summary.
C3_BalanceIsSumOfNets ==
    Quiescent =>
        \A u \in accounts :
            /\ balance[u] = SumOfNets(u)
            /\ balance[u] = LatestBalanceAfter(u)
            /\ net_amount(u) = current_balance(u)

\* C3 happens: an account has been credited and debited by several calls and
\* is left with a balance other than 0.
C3_Witness ==
    /\ Quiescent
    /\ \E u \in accounts :
          LET es == EntriesOf(u)
          IN /\ Len(es) = MaxTx
             /\ \E i \in 1..Len(es) : es[i].debit > 0
             /\ \E i \in 1..Len(es) : es[i].credit > 0
             /\ balance[u] # 0

\* C4: a recordTransaction call is all or nothing: a step that ends the call
\* with a failed INSERT leaves the balance as it was before the call, and a
\* step that adds a ledger row leaves the owner's balance at that row's
\* balance_after.
C4_AllOrNothing ==
    [][\A r \in Requests :
          (req[r].pc = "insert" /\ req'[r].pc = "idle") =>
              IF Len(ledger') = Len(ledger)
              THEN balance'[req[r].user] =
                       req[r].balance - (req[r].credit - req[r].debit)
              ELSE balance'[req[r].user] = ledger'[Len(ledger')].balance_after
      ]_vars

\* C5: no account ever has a negative balance.
C5_BalanceNonNegative == \A u \in accounts : balance[u] >= 0

\* C6: the ledger is append-only: every step keeps each ledger row, with all
\* its fields, unless the step deletes the account that owns the row.
C6_LedgerAppendOnly ==
    [][\A i \in 1..Len(ledger) :
          ledger[i].user \in accounts' =>
              \E j \in 1..Len(ledger') : ledger'[j] = ledger[i]
      ]_vars

\* C7: an account is created with balance 0, and the only step that changes
\* the balance of an account is the balance write of a recordTransaction call
\* on that account.
C7_BalanceChangedOnlyByRecordTransaction ==
    [][\A u \in UserIds :
          /\ (u \in accounts' \ accounts /\ Quiescent) => balance'[u] = 0
          /\ (u \in accounts /\ u \in accounts' /\ balance'[u] # balance[u]) =>
                \E r \in Requests :
                    /\ req[r].pc = "save" /\ req'[r].pc = "insert"
                    /\ req[r].user = u
      ]_vars

\* C8: recordTransaction is not idempotent: every accepted call has added one
\* ledger row of its own, and two successive identical calls on an account
\* leave two rows with different ids and move the balance by twice
\* credit - debit.
C8_ReplayIsNotIdempotent ==
    /\ Quiescent => Len(ledger) = served
    /\ \A i, j \in 1..Len(ledger) : i # j => ledger[i].id # ledger[j].id
    /\ \A u \in accounts :
          LET es == EntriesOf(u)
              before(i) == IF i = 1 THEN 0 ELSE es[i - 1].balance_after
          IN \A i \in 1..(Len(es) - 1) :
                (/\ es[i + 1].transaction_type = es[i].transaction_type
                 /\ es[i + 1].debit = es[i].debit
                 /\ es[i + 1].credit = es[i].credit
                 /\ es[i + 1].description = es[i].description)
                => es[i + 1].balance_after =
                       before(i) + 2 * (es[i].credit - es[i].debit)

\* C8 happens: an account's ledger holds the rows of a call and of its replay,
\* and the call moved the balance.
C8_Witness ==
    /\ Quiescent
    /\ \E u \in accounts :
          LET es == EntriesOf(u)
          IN \E i \in 1..(Len(es) - 1) :
                /\ es[i + 1].transaction_type = es[i].transaction_type
                /\ es[i + 1].debit = es[i].debit
                /\ es[i + 1].credit = es[i].credit
                /\ es[i + 1].description = es[i].description
                /\ es[i].credit # es[i].debit
                /\ balance[u] = es[i + 1].balance_after

\* C9: createHolding with quantity <= 0, purchase price <= 0 or current price
\* <= 0 is answered with a validation error (400) and leaves the holdings
\* store, the balances and the ledger as they were.
C9_CreateHoldingRejectsNonPositive ==
    [][\A a \in UserIds, s \in StockInputs, q \in QuantityInputs,
          bp \in BuyingPriceInputs, cp \in CurrentPriceInputs :
          (CreateHolding(a, s, q, bp, cp) /\ (q <= 0 \/ bp <= 0 \/ cp <= 0)) =>
              /\ status' = 400
              /\ UNCHANGED <<holdings, balance, ledger>>
      ]_vars

\* no two holdings share the pair (owning account, stock symbol)
UniquePairs(rows) ==
    \A g, h \in rows : (g.user = h.user /\ g.stock = h.stock) => g = h

\* whether (user, stock) is the pair of a row of `rows` other than row `id`
PairOfAnother(rows, user, stock, id) ==
    \E h \in rows : h.id # id /\ h.user = user /\ h.stock = stock

\* C10: no two holdings ever share the pair (owning account, stock symbol):
\* every step leaves the pairs unique, a row it adds or changes never takes
\* the pair another row held, and a request that is refused leaves the
\* holdings store unchanged.
C10_UniqueAccountStock ==
    [][/\ UniquePairs(holdings')
       /\ \A h \in holdings' \ holdings :
             ~PairOfAnother(holdings, h.user, h.stock, h.id)
       /\ status' \in {400, 404, 500} => holdings' = holdings
      ]_vars

\* C10 happens: the store holds rows that share an account or a stock, and a
\* create for a pair that is already stored has just been refused.
C10_Witness ==
    /\ status = 500
    /\ Cardinality(holdings) = MaxHoldings
    /\ \E g, h \in holdings : g # h /\ (g.user = h.user \/ g.stock = h.stock)

\* C11: the total_profit_loss of the portfolio summary is the sum of current
\* values minus the sum of invested amounts, it is the sum of the holdings'
\* profit_loss, it is the number the performance operation reports as
\* total_return for the same account, and the summary's percentage is 0
\* when nothing is invested
C11_TotalsAgree ==
    LET S == response.summary
        P == response.performance
        mine == IF S.status = 200 THEN HoldingsOf(S.user) ELSE <<>>
    IN /\ S.status = 200 =>
            /\ S.total_profit_loss = S.total_current_value - S.total_invested
            /\ S.total_profit_loss =
                   SumSeq([i \in 1..Len(mine) |-> profit_loss(mine[i])])
            /\ S.total_invested = 0 => S.total_profit_loss_percentage = 0
       /\ S.status = 200 /\ P.status = 200 /\ S.user = P.user =>
            P.total_return = FloatOfDecimal(S.total_profit_loss)

\* C12: a recordTransaction request never commits on top of a stale balance:
\* when it writes the account's balance, the balance it computed from is the
\* one stored at that moment (a request that lost a race is retried from the
\* fresh balance or ends with a transient-failure error instead)
C12_NoCommitOnStaleBalance ==
    [][\A r \in Requests :
          req[r].pc = "save" /\ req'[r].pc = "insert"
              => req[r].balance = balance[req[r].user]
      ]_vars

\* C13: under requests of non-staff accounts, a ledger row is created for the
\* account of the request, and no ledger row and no holding ever changes its
\* owner
C13_OwnershipFixed ==
    [][/\ \A i \in 1..Len(ledger), j \in 1..Len(ledger') :
             ledger[i].id = ledger'[j].id => ledger[i].user = ledger'[j].user
       /\ \A j \in 1..Len(ledger') :
             ledger'[j].id \notin TxIds(ledger) => ledger'[j].user = req[1].user
       /\ \A h \in holdings, g \in holdings' : h.id = g.id => h.user = g.user
      ]_vars

====
